---- MODULE Spec2Model ----
(***************************************************************************)
(* State-machine model of shrpx::MemcachedConnection                       *)
(* (src/src/shrpx_memcached_connection.cc): one non-blocking connection to *)
(* a memcached backend, its send/receive queues, the pipelining send       *)
(* scheduler, the incremental response parser and the disconnect path.     *)
(*                                                                         *)
(* Requests are heap objects; the model keeps them in the table reqs and   *)
(* the queues hold their indices.  Every event-loop callback is one        *)
(* action.  The socket is the environment: a write is answered by the      *)
(* number of bytes the socket accepts, a read by a prefix of the bytes the *)
(* server has put on the wire.                                             *)
(***************************************************************************)
EXTENDS Integers, Sequences, FiniteSets, TLC

\* ------------------------------------------------------------------ bounds
MaxReqs == 2             \* add_request calls in one behaviour
MaxNet == 60             \* response bytes in flight towards the client
MaxWritesPerEvent == 1   \* writev calls answered with bytes in one on_write
MaxReadsPerEvent == 1    \* read calls answered with bytes in one on_read
MaxPartialWrites == 1    \* writev calls on one socket that take part of the bytes

\* ------------------------------------------------------- program constants
MEMCACHED_REQ_MAGIC == 128
MEMCACHED_RES_MAGIC == 129
MEMCACHED_OP_GET == 0
MEMCACHED_OP_ADD == 2
MEMCACHED_ERR_ERROR == -1   \* sentinel status of a connection-error result
SendCap == 1300          \* byte cap of one staged batch
MaxTotalBody == 16384    \* 16_k
HeaderLen == 24
IovMax == 1024           \* IOV_MAX
RecvBufCap == 8192       \* capacity of recvbuf_

\* ------------------------------------------------------------------ helpers
Min(a, b) == IF a < b THEN a ELSE b

Range(q) == {q[i] : i \in 1..Len(q)}

Zeros(n) == [i \in 1..n |-> 0]

RECURSIVE SumSeq(_)
SumSeq(q) == IF q = <<>> THEN 0 ELSE Head(q) + SumSeq(Tail(q))

\* util::put_uint16be / put_uint32be and util::get_uint16 / get_uint32 /
\* get_uint64: network byte order (most significant byte first).
put_uint16be(n) == <<(n \div 256) % 256, n % 256>>

put_uint32be(n) == <<(n \div 16777216) % 256, (n \div 65536) % 256,
                     (n \div 256) % 256, n % 256>>

get_uint16(b) == b[1] * 256 + b[2]

get_uint32(b) == ((b[1] * 256 + b[2]) * 256 + b[3]) * 256 + b[4]

RECURSIVE get_uintbe(_)
get_uintbe(b) ==
  IF b = <<>> THEN 0 ELSE get_uintbe(SubSeq(b, 1, Len(b) - 1)) * 256 + b[Len(b)]

get_uint64(b) == get_uintbe(b)

\* Buffer<N>: the model keeps the readable part [pos, last) of the buffer.
rleft(buf) == Len(buf)

wleft(buf) == RecvBufCap - Len(buf)

\* Buffer::drain_reset(count): drop count bytes from the head and move the
\* rest to the start of the buffer.
drain_reset(buf, count) ==
  LET c == Min(count, rleft(buf)) IN SubSeq(buf, c + 1, Len(buf))

\* Buffer::reset(): forget everything.
buf_reset(buf) == <<>>

\* ---------------------------------------------------------------- requests
\* The requests a caller may hand to add_request: opcode, key length, value
\* length and whether a completion callback is set.  With a 4-byte key an
\* ADD of 1264 value bytes serializes to exactly 1300 bytes, one of 1265 to
\* 1301 bytes.
ReqInputs ==
  { [op |-> MEMCACHED_OP_GET, keylen |-> 4, vallen |-> 0,    cb |-> TRUE],
    [op |-> MEMCACHED_OP_ADD, keylen |-> 4, vallen |-> 2,    cb |-> FALSE],
    [op |-> MEMCACHED_OP_ADD, keylen |-> 4, vallen |-> 1264, cb |-> TRUE],
    [op |-> MEMCACHED_OP_ADD, keylen |-> 4, vallen |-> 1265, cb |-> TRUE] }

\* struct MemcachedParseState, zero-initialised ("parse_state_ = {}").
ParseStateInit ==
  [state |-> "HEADER24", op |-> 0, keylen |-> 0, extralen |-> 0,
   status_code |-> 0, totalbody |-> 0, cas |-> 0, read_left |-> 0,
   value |-> <<>>]

VARIABLES
  reqs,         \* the MemcachedRequest objects ever handed over, by index
  sendq,        \* sendq_: indices of requests not yet fully written
  recvq,        \* recvq_: indices of requests awaiting their response
  sendbufv,     \* sendbufv_: the staged batch
  sendsum,      \* sendsum_: unsent bytes of the staged batch
  parse_state,  \* parse_state_
  recvbuf,      \* recvbuf_: its unread bytes
  connected,    \* connected_
  fd,           \* conn_.fd # -1
  wev,          \* write watcher active (conn_.wlimit started)
  wev_cb,       \* callback of the write watcher: "connectcb" or "writecb"
  rev,          \* read watcher active (conn_.rlimit started)
  wt,           \* write timer conn_.wt running
  rt,           \* read timer conn_.rt running
  calls,        \* callback invocations so far, in order, each with the
                \* request, the result, the handler run that made it and
                \* whether the request was still in its queue (queued)
  fault,        \* "none", or the assertion / undefined access that ended the
                \* process or left its state undefined
  ndebug,       \* TRUE when the build compiles assert() away
  net,          \* response bytes on the wire, not yet read by the client
  srvq,         \* requests whose bytes the server has received in full
  leaked,       \* requests that were already canceled when bytes of theirs were written
  pw,           \* writev calls on this socket that took only part of the bytes offered
  marks,        \* the frames whose last byte is still on the wire, in order:
                \* end (its offset in net), kind ("ok", "bad", "unsolicited"),
                \* hdr (its 24-byte header as the server sent it)
  ev            \* "disc" when the last handler ran disconnect(), "destroy" /
                \* "destroy_again" after the destructor, "run" otherwise

vars == <<reqs, sendq, recvq, sendbufv, sendsum, parse_state, recvbuf,
          connected, fd, wev, wev_cb, rev, wt, rt, calls, fault, ndebug,
          net, srvq, leaked, pw, marks, ev>>

\* The connection object (and the wire it owns) as one record, so that the
\* member functions can be written as operators from state to state.
Cur ==
  [sendq |-> sendq, recvq |-> recvq, sendbufv |-> sendbufv,
   sendsum |-> sendsum, parse_state |-> parse_state, recvbuf |-> recvbuf,
   connected |-> connected, fd |-> fd, wev |-> wev, wev_cb |-> wev_cb,
   rev |-> rev, wt |-> wt, rt |-> rt, calls |-> calls, fault |-> fault,
   net |-> net, srvq |-> srvq, leaked |-> leaked, pw |-> pw,
   marks |-> marks, run |-> Len(calls)]

Commit(s) ==
  /\ sendq' = s.sendq
  /\ recvq' = s.recvq
  /\ sendbufv' = s.sendbufv
  /\ sendsum' = s.sendsum
  /\ parse_state' = s.parse_state
  /\ recvbuf' = s.recvbuf
  /\ connected' = s.connected
  /\ fd' = s.fd
  /\ wev' = s.wev
  /\ wev_cb' = s.wev_cb
  /\ rev' = s.rev
  /\ wt' = s.wt
  /\ rt' = s.rt
  /\ calls' = s.calls
  /\ fault' = s.fault
  /\ net' = s.net
  /\ srvq' = s.srvq
  /\ leaked' = s.leaked
  /\ pw' = s.pw
  /\ marks' = s.marks

\* MemcachedConnection::MemcachedConnection
Init ==
  /\ reqs = <<>>
  /\ sendq = <<>>
  /\ recvq = <<>>
  /\ sendbufv = <<>>
  /\ sendsum = 0
  /\ parse_state = ParseStateInit
  /\ recvbuf = <<>>
  /\ connected = FALSE
  /\ fd = FALSE
  /\ wev = FALSE
  /\ wev_cb = "connectcb"
  /\ rev = FALSE
  /\ wt = FALSE
  /\ rt = FALSE
  /\ calls = <<>>
  /\ fault = "none"
  /\ ndebug \in BOOLEAN
  /\ net = <<>>
  /\ srvq = <<>>
  /\ leaked = {}
  /\ pw = 0
  /\ marks = <<>>
  /\ ev = "run"

\* ------------------------------------------------------------- disconnect
\* A callback invocation: the request and the MemcachedResult handed to it.
\* run tells the invocations of one handler run from those of another: it is
\* the number of invocations made before the handler started.
Result(r, status_code, value, run, queued) ==
  [req |-> r, status_code |-> status_code, value |-> value, run |-> run,
   queued |-> queued]

\* The invocations clear_request makes for the queue q, in order.
ClearCalls(q, run) ==
  [i \in 1..Len(SelectSeq(q, LAMBDA r : reqs[r].cb)) |->
     Result(SelectSeq(q, LAMBDA r : reqs[r].cb)[i], MEMCACHED_ERR_ERROR, <<>>,
            run, TRUE)]

\* clear_request without its q.clear().
clear_request_keep(s, which) ==
  IF which = "recvq"
  THEN [s EXCEPT !.calls = s.calls \o ClearCalls(s.recvq, s.run)]
  ELSE [s EXCEPT !.calls = s.calls \o ClearCalls(s.sendq, s.run)]

\* clear_request(q), for q = recvq_ or q = sendq_.
clear_request(s, which) ==
  IF which = "recvq"
  THEN [s EXCEPT !.calls = s.calls \o ClearCalls(s.recvq, s.run),
                 !.recvq = <<>>]
  ELSE [s EXCEPT !.calls = s.calls \o ClearCalls(s.sendq, s.run),
                 !.sendq = <<>>]

\* Connection::disconnect(): stop the watchers and timers, close the socket.
\* The server sees the close: what was on the wire is gone.
conn_disconnect(s) ==
  [s EXCEPT !.fd = FALSE, !.wev = FALSE, !.rev = FALSE, !.wt = FALSE,
            !.rt = FALSE, !.net = <<>>, !.srvq = <<>>, !.marks = <<>>,
            !.pw = 0]

\* disconnect() with the two queues cleared in the wrong order.
disconnect_sendq_first(s) ==
  IF s.fault # "none" THEN s
  ELSE
    LET s1 == clear_request(clear_request(s, "sendq"), "recvq")
        s2 == [s1 EXCEPT !.sendbufv = <<>>, !.sendsum = 0,
                         !.parse_state = ParseStateInit,
                         !.connected = FALSE]
        s3 == conn_disconnect(s2)
    IN IF rleft(s3.recvbuf) # 0 /\ ~ndebug
       THEN [s3 EXCEPT !.fault = "assert_recvbuf"]
       ELSE [s3 EXCEPT !.recvbuf = buf_reset(s3.recvbuf)]

\* MemcachedConnection::disconnect()
disconnect(s) ==
  IF s.fault # "none" THEN s
  ELSE
    LET s1 == clear_request(clear_request(s, "recvq"), "sendq")
        s2 == [s1 EXCEPT !.sendbufv = <<>>, !.sendsum = 0,
                         !.parse_state = ParseStateInit,
                         !.connected = FALSE]
        s3 == conn_disconnect(s2)
    IN IF rleft(s3.recvbuf) # 0 /\ ~ndebug
       THEN [s3 EXCEPT !.fault = "assert_recvbuf"]
       ELSE [s3 EXCEPT !.recvbuf = buf_reset(s3.recvbuf)]

\* ------------------------------------------------------------ parse_packet
\* The bytes in[0], .., in[n-1] of the receive buffer, in being recvbuf_.pos
\* advanced by off.
Bytes(buf, off, from, n) == SubSeq(buf, off + from + 1, off + from + n)

\* The header fields parse_packet stores into parse_state_ (lines 280-293).
HeaderFields(ps, buf, off) ==
  [ps EXCEPT !.op = buf[off + 2],
             !.keylen = get_uint16(Bytes(buf, off, 2, 2)),
             !.extralen = buf[off + 5],
             !.status_code = get_uint16(Bytes(buf, off, 6, 2)),
             !.totalbody = get_uint32(Bytes(buf, off, 8, 4)),
             !.cas = get_uint64(Bytes(buf, off, 16, 8))]

\* The header checks without the two of the total body length.
HeaderRejected_nosize(ps, reqop) ==
  \/ reqop # ps.op
  \/ ps.keylen # 0
  \/ (ps.op = MEMCACHED_OP_GET /\ ps.status_code = 0 /\ ps.extralen = 0)

\* The header checks without the one of the key length.
HeaderRejected_nokeylen(ps, reqop) ==
  \/ reqop # ps.op
  \/ ps.totalbody > MaxTotalBody
  \/ (ps.op = MEMCACHED_OP_GET /\ ps.status_code = 0 /\ ps.extralen = 0)
  \/ ps.totalbody < ps.keylen + ps.extralen

\* The checks of a complete header after the magic byte (lines 295-326):
\* TRUE when the header is rejected.
HeaderRejected(ps, reqop) ==
  \/ reqop # ps.op
  \/ ps.keylen # 0
  \/ ps.totalbody > MaxTotalBody
  \/ (ps.op = MEMCACHED_OP_GET /\ ps.status_code = 0 /\ ps.extralen = 0)
  \/ ps.totalbody < ps.keylen + ps.extralen

\* The phase entered after an accepted header (lines 328-335).
AfterHeader(ps) ==
  IF ps.extralen # 0
  THEN [ps EXCEPT !.state = "EXTRA", !.read_left = ps.extralen]
  ELSE [ps EXCEPT !.state = "VALUE",
                  !.read_left = ps.totalbody - ps.keylen - ps.extralen]

\* A completed frame matched to the newest entry of recvq_.
Dispatch_newest(s, ps) ==
  LET r == s.recvq[Len(s.recvq)]
  IN [s EXCEPT !.recvq = SubSeq(s.recvq, 1, Len(s.recvq) - 1),
               !.calls = IF ~reqs[r].canceled /\ reqs[r].cb
                         THEN Append(s.calls,
                                     Result(r, ps.status_code, ps.value, s.run, FALSE))
                         ELSE s.calls,
               !.parse_state = ParseStateInit]

\* A completed frame dispatched with parse_state_ left as it is.
Dispatch_noreset(s, ps) ==
  LET r == Head(s.recvq)
  IN [s EXCEPT !.recvq = Tail(s.recvq),
               !.calls = IF ~reqs[r].canceled /\ reqs[r].cb
                         THEN Append(s.calls,
                                     Result(r, ps.status_code, ps.value, s.run, FALSE))
                         ELSE s.calls,
               !.parse_state = ps]

\* A completed frame (lines 378-386): the oldest request leaves recvq_, its
\* callback is invoked unless it is canceled or has none, parse_state_ is
\* reset.
Dispatch(s, ps) ==
  LET r == Head(s.recvq)
  IN [s EXCEPT !.recvq = Tail(s.recvq),
               !.calls = IF ~reqs[r].canceled /\ reqs[r].cb
                         THEN Append(s.calls,
                                     Result(r, ps.status_code, ps.value, s.run, FALSE))
                         ELSE s.calls,
               !.parse_state = ParseStateInit]

\* Fewer than 24 bytes of a header are buffered (lines 260-263): the bytes
\* consumed so far are dropped, the partial header stays.
KeepPartialHeader_reset(s, off) == [s EXCEPT !.recvbuf = buf_reset(s.recvbuf)]

KeepPartialHeader(s, off) ==
  [s EXCEPT !.recvbuf = drain_reset(s.recvbuf, off)]

\* The loop of parse_packet; off is in - recvbuf_.pos.
RECURSIVE parse_loop(_, _)
parse_loop(s, off) ==
  LET ps == s.parse_state
      avail == Len(s.recvbuf) - off
  IN
  IF ps.state = "HEADER24" THEN
    IF avail < HeaderLen
    THEN [st |-> KeepPartialHeader(s, off), rv |-> 0]
    ELSE IF s.recvq = <<>> THEN [st |-> s, rv |-> -1]
    ELSE IF s.recvbuf[off + 1] # MEMCACHED_RES_MAGIC THEN [st |-> s, rv |-> -1]
    ELSE
      LET ps1 == HeaderFields(ps, s.recvbuf, off)
      IN IF HeaderRejected(ps1, reqs[Head(s.recvq)].op)
         THEN [st |-> [s EXCEPT !.parse_state = ps1], rv |-> -1]
         ELSE parse_loop([s EXCEPT !.parse_state = AfterHeader(ps1)],
                         off + HeaderLen)
  ELSE IF ps.state = "EXTRA" THEN
    LET n == Min(avail, ps.read_left)
        ps1 == [ps EXCEPT !.read_left = ps.read_left - n]
    IN IF ps1.read_left # 0
       THEN [st |-> [s EXCEPT !.parse_state = ps1,
                              !.recvbuf = buf_reset(s.recvbuf)],
             rv |-> 0]
       ELSE parse_loop(
              [s EXCEPT !.parse_state =
                 [ps1 EXCEPT !.state = "VALUE",
                             !.read_left = ps1.totalbody - ps1.keylen
                                           - ps1.extralen]],
              off + n)
  ELSE
    LET n == Min(avail, ps.read_left)
        ps1 == [ps EXCEPT !.value = ps.value \o Bytes(s.recvbuf, off, 0, n),
                          !.read_left = ps.read_left - n]
    IN IF ps1.read_left # 0
       THEN [st |-> [s EXCEPT !.parse_state = ps1,
                              !.recvbuf = buf_reset(s.recvbuf)],
             rv |-> 0]
       ELSE IF off + n = Len(s.recvbuf)
       THEN [st |-> [Dispatch(s, ps1) EXCEPT !.recvbuf = buf_reset(s.recvbuf)],
             rv |-> 0]
       ELSE parse_loop(Dispatch(s, ps1), off + n)

\* MemcachedConnection::parse_packet()
parse_packet(s) == parse_loop(s, 0)

\* The frame marks after the client has taken n bytes off the wire.
Shift(ms, n) ==
  [i \in 1..Len(SelectSeq(ms, LAMBDA m : m.end > n)) |->
     [SelectSeq(ms, LAMBDA m : m.end > n)[i] EXCEPT !.end = @ - n]]

\* MemcachedConnection::on_read().  reads are the byte counts the socket
\* hands out one read after the other; when they are used up the socket
\* reports last: 0 (nothing to read now) or -1 (error or end of stream).
RECURSIVE on_read_loop(_, _, _)
on_read_loop(s, reads, last) ==
  LET nread == IF reads = <<>> THEN last
               ELSE Min(Head(reads), Min(Len(s.net), wleft(s.recvbuf)))
  IN IF nread = 0 THEN [st |-> s, rv |-> 0]
     ELSE IF nread < 0 THEN [st |-> s, rv |-> -1]
     ELSE
       LET s1 == [s EXCEPT !.recvbuf = s.recvbuf \o SubSeq(s.net, 1, nread),
                           !.net = SubSeq(s.net, nread + 1, Len(s.net)),
                           !.marks = Shift(s.marks, nread)]
           p == parse_packet(s1)
       IN IF p.rv # 0 THEN [st |-> p.st, rv |-> -1]
          ELSE on_read_loop(p.st, Tail(reads), last)

on_read(s, reads, last) ==
  IF ~s.connected THEN [st |-> s, rv |-> 0]
  ELSE on_read_loop([s EXCEPT !.rt = TRUE], reads, last)

\* readcb going on after a failed on_read.
readcb_nodisconnect(s, reads, last) == on_read(s, reads, last).st

\* readcb
readcb(s, reads, last) ==
  IF on_read(s, reads, last).rv # 0
  THEN disconnect(on_read(s, reads, last).st)
  ELSE on_read(s, reads, last).st

\* ------------------------------------------------------------ send_request
\* MemcachedConnection::serialized_size(req)
serialized_size(r) ==
  IF reqs[r].op = MEMCACHED_OP_GET
  THEN 24 + reqs[r].keylen
  ELSE 24 + 8 + reqs[r].keylen + reqs[r].vallen

\* MemcachedConnection::make_request(sendbuf, req): the staged entry, with
\* head the unsent bytes of its header buffer (header, extra and key).
make_request(r) ==
  [req |-> r,
   head |-> (IF reqs[r].op = MEMCACHED_OP_GET THEN 24
             ELSE IF reqs[r].op = MEMCACHED_OP_ADD THEN 32 ELSE 0)
            + reqs[r].keylen,
   send_value_left |-> reqs[r].vallen]

\* MemcachedSendbuf::left()
left(buf) == buf.head + buf.send_value_left

\* The staging loop of send_request (lines 406-417) over the requests q of
\* sendq_ not yet visited.
RECURSIVE stage(_, _, _)
stage(q, bufs, sum) ==
  IF q = <<>> THEN [sendbufv |-> bufs, sendsum |-> sum]
  ELSE IF reqs[Head(q)].canceled THEN stage(Tail(q), bufs, sum)
  ELSE IF serialized_size(Head(q)) + sum > SendCap
  THEN [sendbufv |-> bufs, sendsum |-> sum]
  ELSE stage(Tail(q), Append(bufs, make_request(Head(q))),
             sum + left(make_request(Head(q))))

\* The gather vector built from the staged batch (lines 425-441): the
\* entries of sendbufv_ it covers, at most two iovecs each.
RECURSIVE iov_prefix(_, _)
iov_prefix(bufs, iovlen) ==
  IF bufs = <<>> \/ iovlen + 2 > IovMax THEN <<>>
  ELSE <<Head(bufs)>> \o
       iov_prefix(Tail(bufs),
                  iovlen + (IF Head(bufs).head # 0 THEN 1 ELSE 0)
                         + (IF Head(bufs).send_value_left # 0 THEN 1 ELSE 0))

iov_bytes(bufs) == SumSeq([i \in 1..Len(bufs) |-> left(bufs[i])])

\* TRUE when building the gather vector reads req->value of a request that
\* has already been destroyed (line 437 through a dangling buf.req).
DanglingValue(s, bufs) ==
  \E i \in 1..Len(bufs) :
     /\ bufs[i].send_value_left # 0
     /\ bufs[i].req \notin Range(s.sendq) \cup Range(s.recvq)

\* The requests of which a write of nwrite bytes of the gather vector bufs
\* puts at least one byte on the wire.
RECURSIVE Written(_, _)
Written(bufs, nwrite) ==
  IF bufs = <<>> \/ nwrite <= 0 THEN {}
  ELSE {Head(bufs).req} \cup Written(Tail(bufs), nwrite - left(Head(bufs)))

\* What the undefined accesses of send_request may come to.
\*   crash_value: reading req->value through a dangling buf.req (line 437)
\*                ends the process;
\*   crash_front: sendq_.front() on the empty deque, or the read of
\*                req->canceled through what it yields (lines 455-456), ends
\*                the process;
\*   stale:       what that front() yields otherwise: the pointer of a request
\*                destroyed before, or (0) a pointer that is no request, the
\*                slot never having held one;
\*   canceled:    what the byte req->canceled is read as through that pointer.
\* Which pointer it was is of no account once the access has ended the
\* process or the byte has read as canceled: stale is 0 then.
UbChoices ==
  {u \in [crash_value : BOOLEAN, crash_front : BOOLEAN, stale : 0..MaxReqs,
          canceled : BOOLEAN] :
     /\ ~(u.crash_front /\ u.canceled)
     /\ (u.crash_front \/ u.canceled) => (u.stale = 0)}

NoUb ==
  [crash_value |-> FALSE, crash_front |-> FALSE, stale |-> 0,
   canceled |-> FALSE]

\* The destroyed requests: handed over once, in neither queue any more.
Freed(s) == (1..Len(reqs)) \ (Range(s.sendq) \cup Range(s.recvq))

\* What sendq_.front() yields on the empty deque when the access does not
\* end the process: the content of the slot behind the last element, the
\* pointer of a request destroyed earlier or no request at all (0).
StaleFront(s, ub) == IF ub.stale \in Freed(s) THEN ub.stale ELSE 0

\* The requests whose last byte a write of nwrite bytes of the gather vector
\* bufs puts on the wire, in order: the server then has them in full.
RECURSIVE Delivered(_, _)
Delivered(bufs, nwrite) ==
  IF bufs = <<>> \/ nwrite < left(Head(bufs)) THEN <<>>
  ELSE <<Head(bufs).req>> \o Delivered(Tail(bufs), nwrite - left(Head(bufs)))

\* The accounting loop after a write of nwrite bytes (lines 453-474).  On an
\* empty sendq_ the front() of line 455 is undefined: the process dies there
\* (ub.crash_front), or req is whatever the slot holds and the loop goes on
\* with it.  In the second case the pop_front() of line 457 or 473 then
\* works on the empty deque and leaves it corrupt (its size wraps around):
\* the fault "ub_sendq_pop_front" stands for that state, in which
\* send_request returns and after which every use of sendq_ is undefined.
RECURSIVE account(_, _, _)
account(s, nwrite, ub) ==
  IF nwrite <= 0 THEN s
  ELSE IF s.sendbufv = <<>> THEN [s EXCEPT !.fault = "ub_sendbufv_front"]
  ELSE IF s.sendq = <<>> /\ ub.crash_front
  THEN [s EXCEPT !.fault = "ub_sendq_front"]
  ELSE
    LET buf == Head(s.sendbufv)
        r == IF s.sendq = <<>> THEN StaleFront(s, ub) ELSE Head(s.sendq)
        canceled == IF s.sendq = <<>> THEN ub.canceled ELSE reqs[r].canceled
    IN IF canceled
       THEN IF s.sendq = <<>>
            THEN [s EXCEPT !.fault = "ub_sendq_pop_front"]
            ELSE account([s EXCEPT !.sendq = Tail(s.sendq)], nwrite, ub)
       ELSE IF buf.req # r /\ ~ndebug
       THEN [s EXCEPT !.fault = "assert_bufreq"]
       ELSE
         LET n1 == Min(nwrite, buf.head)
             n2 == Min(nwrite - n1, buf.send_value_left)
             buf1 == [buf EXCEPT !.head = buf.head - n1,
                                 !.send_value_left = buf.send_value_left - n2]
         IN IF buf1.head # 0 \/ buf1.send_value_left # 0
            THEN [s EXCEPT !.sendbufv = <<buf1>> \o Tail(s.sendbufv)]
            ELSE IF s.sendq = <<>>
            THEN [s EXCEPT !.sendbufv = Tail(s.sendbufv),
                           !.recvq = Append(s.recvq, r),
                           !.fault = "ub_sendq_pop_front"]
            ELSE account([s EXCEPT !.sendbufv = Tail(s.sendbufv),
                                    !.recvq = Append(s.recvq, r),
                                    !.sendq = Tail(s.sendq)],
                         nwrite - n1 - n2, ub)

\* send_request without "sendsum_ -= nwrite".
send_request_nosub(s, w, ub) ==
  LET staged == IF s.sendsum = 0 THEN stage(s.sendq, s.sendbufv, s.sendsum)
                ELSE [sendbufv |-> s.sendbufv, sendsum |-> s.sendsum]
      s1 == [s EXCEPT !.sendbufv = staged.sendbufv, !.sendsum = staged.sendsum]
      iov == iov_prefix(s1.sendbufv, 0)
      nwrite == IF w < 0 THEN -1 ELSE Min(w, iov_bytes(iov))
  IN IF s.sendsum = 0 /\ staged.sendsum = 0
     THEN [st |-> [s1 EXCEPT !.sendq = <<>>], rv |-> 0, used |-> FALSE]
     ELSE IF DanglingValue(s1, iov) /\ ub.crash_value
     THEN [st |-> [s1 EXCEPT !.fault = "ub_dangling_req"], rv |-> 0,
           used |-> FALSE]
     ELSE IF nwrite < 0 THEN [st |-> s1, rv |-> -1, used |-> TRUE]
     ELSE IF nwrite = 0 THEN [st |-> s1, rv |-> 1, used |-> TRUE]
     ELSE [st |-> account(
                    [s1 EXCEPT !.leaked = s1.leaked \cup
                                  {r \in Written(iov, nwrite) : reqs[r].canceled},
                               !.pw = s1.pw + IF nwrite < iov_bytes(iov)
                                              THEN 1 ELSE 0,
                               !.srvq = s1.srvq \o Delivered(iov, nwrite)],
                    nwrite, ub),
           rv |-> 0, used |-> TRUE]

\* send_request staging on every call, a batch being under way or not.
send_request_restage(s, w, ub) ==
  LET staged == stage(s.sendq, s.sendbufv, s.sendsum)
      s1 == [s EXCEPT !.sendbufv = staged.sendbufv, !.sendsum = staged.sendsum]
      iov == iov_prefix(s1.sendbufv, 0)
      nwrite == IF w < 0 THEN -1 ELSE Min(w, iov_bytes(iov))
  IN IF staged.sendsum = 0
     THEN [st |-> [s1 EXCEPT !.sendq = <<>>], rv |-> 0, used |-> FALSE]
     ELSE IF DanglingValue(s1, iov) /\ ub.crash_value
     THEN [st |-> [s1 EXCEPT !.fault = "ub_dangling_req"], rv |-> 0,
           used |-> FALSE]
     ELSE IF nwrite < 0 THEN [st |-> s1, rv |-> -1, used |-> TRUE]
     ELSE IF nwrite = 0 THEN [st |-> s1, rv |-> 1, used |-> TRUE]
     ELSE [st |-> account(
                    [s1 EXCEPT !.sendsum = s1.sendsum - nwrite,
                               !.leaked = s1.leaked \cup
                                  {r \in Written(iov, nwrite) : reqs[r].canceled},
                               !.pw = s1.pw + IF nwrite < iov_bytes(iov)
                                              THEN 1 ELSE 0,
                               !.srvq = s1.srvq \o Delivered(iov, nwrite)],
                    nwrite, ub),
           rv |-> 0, used |-> TRUE]

\* MemcachedConnection::send_request().  w is what the socket does with the
\* write: -1 fails it, otherwise it accepts up to w bytes.  ub is the
\* outcome of the undefined accesses: on reading req->value through a
\* dangling buf.req (line 437) the process dies (ub.crash_value) or goes on with
\* whatever bytes it read.  used tells whether writev was called.
send_request(s, w, ub) ==
  LET staged == IF s.sendsum = 0 THEN stage(s.sendq, s.sendbufv, s.sendsum)
                ELSE [sendbufv |-> s.sendbufv, sendsum |-> s.sendsum]
      s1 == [s EXCEPT !.sendbufv = staged.sendbufv, !.sendsum = staged.sendsum]
      iov == iov_prefix(s1.sendbufv, 0)
      nwrite == IF w < 0 THEN -1 ELSE Min(w, iov_bytes(iov))
  IN IF s.sendsum = 0 /\ staged.sendsum = 0
     THEN [st |-> [s1 EXCEPT !.sendq = <<>>], rv |-> 0, used |-> FALSE]
     ELSE IF DanglingValue(s1, iov) /\ ub.crash_value
     THEN [st |-> [s1 EXCEPT !.fault = "ub_dangling_req"], rv |-> 0,
           used |-> FALSE]
     ELSE IF nwrite < 0 THEN [st |-> s1, rv |-> -1, used |-> TRUE]
     ELSE IF nwrite = 0 THEN [st |-> s1, rv |-> 1, used |-> TRUE]
     ELSE [st |-> account(
                    [s1 EXCEPT !.sendsum = s1.sendsum - nwrite,
                               !.leaked = s1.leaked \cup
                                  {r \in Written(iov, nwrite) : reqs[r].canceled},
                               !.pw = s1.pw + IF nwrite < iov_bytes(iov)
                                              THEN 1 ELSE 0,
                               !.srvq = s1.srvq \o Delivered(iov, nwrite)],
                    nwrite, ub),
           rv |-> 0, used |-> TRUE]

\* The loop of on_write (lines 205-221); ws are the answers of the socket to
\* the writes still to come, after which it accepts nothing more.
RECURSIVE on_write_loop(_, _, _)
on_write_loop(s, ws, ub) ==
  IF s.fault # "none" THEN [st |-> s, rv |-> 0]
  ELSE IF s.sendq = <<>>
  THEN [st |-> [s EXCEPT !.wev = FALSE, !.wt = FALSE], rv |-> 0]
  ELSE
    LET res == send_request(s, IF ws = <<>> THEN 0 ELSE Head(ws), ub)
    IN IF res.rv < 0 THEN [st |-> res.st, rv |-> -1]
       ELSE IF res.rv = 1 THEN [st |-> res.st, rv |-> 0]
       ELSE on_write_loop(res.st,
                          IF res.used /\ ws # <<>> THEN Tail(ws) ELSE ws,
                          ub)

\* MemcachedConnection::on_write()
on_write(s, ws, ub) ==
  IF ~s.connected THEN [st |-> s, rv |-> 0]
  ELSE IF s.sendq = <<>>
  THEN [st |-> [s EXCEPT !.rt = TRUE, !.wev = FALSE, !.wt = FALSE], rv |-> 0]
  ELSE on_write_loop([s EXCEPT !.rt = TRUE], ws, ub)

\* writecb
writecb(s, ws, ub) ==
  IF on_write(s, ws, ub).rv # 0
  THEN disconnect(on_write(s, ws, ub).st)
  ELSE on_write(s, ws, ub).st

\* MemcachedConnection::on_connect(); ok is what
\* util::check_socket_connected reports.
on_connect(s, ok) ==
  IF ~ok THEN [st |-> [s EXCEPT !.wev = FALSE], rv |-> -1]
  ELSE [st |-> [s EXCEPT !.connected = TRUE, !.wev_cb = "writecb",
                         !.rev = TRUE, !.rt = TRUE],
        rv |-> 0]

\* connectcb
connectcb(s, ok, ws, ub) ==
  IF on_connect(s, ok).rv # 0
  THEN disconnect(on_connect(s, ok).st)
  ELSE writecb(on_connect(s, ok).st, ws, ub)

\* ------------------------------------------------------------ add_request
\* MemcachedConnection::initiate_connection(); ok is whether socket() and
\* connect() succeed.
initiate_connection(s, ok) ==
  IF s.fd /\ ~ndebug THEN [st |-> [s EXCEPT !.fault = "assert_fd"], rv |-> -1]
  ELSE IF ~ok THEN [st |-> [s EXCEPT !.fd = FALSE], rv |-> -1]
  ELSE [st |-> [s EXCEPT !.fd = TRUE, !.wev_cb = "connectcb", !.wev = TRUE,
                         !.wt = TRUE],
        rv |-> 0]

\* MemcachedConnection::signal_write()
signal_write(s) == [s EXCEPT !.wev = TRUE]

\* MemcachedConnection::add_request(req), req being the request of index r.
add_request(s, r, ok) ==
  LET s1 == [s EXCEPT !.sendq = Append(s.sendq, r)]
  IN IF s1.connected THEN [st |-> signal_write(s1), rv |-> 0]
     ELSE IF ~s1.fd THEN
       (IF initiate_connection(s1, ok).rv # 0
        THEN [st |-> initiate_connection(s1, ok).st, rv |-> -1]
        ELSE [st |-> initiate_connection(s1, ok).st, rv |-> 0])
     ELSE [st |-> s1, rv |-> 0]

NewRequest(in) ==
  [op |-> in.op, keylen |-> in.keylen, vallen |-> in.vallen, cb |-> in.cb,
   canceled |-> FALSE]

Running == fault = "none" /\ ev \notin {"destroy", "destroy_again"}

\* The caller hands a new request to add_request.
AddRequest ==
  /\ Running
  /\ Len(reqs) < MaxReqs
  /\ \E in \in ReqInputs, ok \in BOOLEAN :
       /\ (ok = FALSE) => (~connected /\ ~fd)
       /\ reqs' = Append(reqs, NewRequest(in))
       /\ LET res == add_request(Cur, Len(reqs) + 1, ok)
          IN /\ Commit(res.st)
             /\ ev' = "run"
  /\ UNCHANGED ndebug

\* The owner of a request that is still queued marks it canceled.
Cancel ==
  /\ Running
  /\ \E r \in Range(sendq) \cup Range(recvq) :
       /\ ~reqs[r].canceled
       /\ reqs' = [reqs EXCEPT ![r].canceled = TRUE]
  /\ ev' = "run"
  /\ UNCHANGED <<sendq, recvq, sendbufv, sendsum, parse_state, recvbuf,
                 connected, fd, wev, wev_cb, rev, wt, rt, calls, fault,
                 ndebug, net, srvq, leaked, pw, marks>>

\* timeoutcb
Timeout ==
  /\ Running
  /\ wt \/ rt
  /\ Commit(disconnect(Cur))
  /\ ev' = "disc"
  /\ UNCHANGED <<reqs, ndebug>>

\* ------------------------------------------------------------ socket events
\* What the socket may answer to one writev: -1 fails it, n accepts up to n
\* bytes.  10 ends inside a header, 28 is one whole GET, 37 ends inside the
\* value of a small ADD, 650 inside the value of a large one, 2000 takes
\* any batch whole.
WriteAnswers == {-1, 10, 28, 37, 650, 2000}

\* The bytes the next writev of the connection will offer to the socket.
PendingBytes ==
  IF sendsum = 0 THEN stage(sendq, sendbufv, sendsum).sendsum ELSE sendsum

\* An undefined access can happen in the next on_write only when a staged
\* buffer points to a destroyed request, a canceled request sits in sendq_
\* or more buffers are staged than requests are queued; in every other state
\* all the choices of UbChoices give the same run.
UbPossible ==
  \/ DanglingValue(Cur, sendbufv)
  \/ \E r \in Range(sendq) : reqs[r].canceled
  \/ Len(sendbufv) > Len(sendq)

\* The choices that can tell in the next on_write, the socket answering
\* ws: the accounting loop runs only once bytes are written, and a stale
\* pointer is that of a request destroyed by then, one that is in neither
\* queue or is canceled and still in sendq_.
UbRelevant(ub, ws) ==
  \/ ub = NoUb
  \/ /\ UbPossible
     /\ (ub.crash_front \/ ub.canceled \/ ub.stale # 0) =>
          \E i \in 1..Len(ws) : ws[i] > 0
     /\ (ub.stale # 0) =>
          /\ ub.stale <= Len(reqs)
          /\ ub.stale \notin Range(recvq)
          /\ (ub.stale \in Range(sendq)) => reqs[ub.stale].canceled

\* The byte counts one read may hand out.
ChunkLens == {10, 26, MaxNet + 1}

SeqsUpTo(S, n) == UNION {[1..k -> S] : k \in 0..n}

\* The event loop reports the connect attempt finished: connectcb.
ConnectReady ==
  /\ Running
  /\ fd /\ wev /\ wev_cb = "connectcb"
  /\ \E ok \in BOOLEAN, ws \in SeqsUpTo(WriteAnswers, MaxWritesPerEvent),
        ub \in UbChoices :
       /\ (~ok) => (ws = <<>>)
       /\ UbRelevant(ub, ws)
       /\ connectcb(Cur, ok, ws, ub).pw <= MaxPartialWrites
       /\ Commit(connectcb(Cur, ok, ws, ub))
       /\ ev' = IF ~ok \/ on_write(on_connect(Cur, ok).st, ws, ub).rv # 0
                THEN "disc" ELSE "run"
  /\ UNCHANGED <<reqs, ndebug>>

\* The socket is writable: writecb.
Writable ==
  /\ Running
  /\ fd /\ wev /\ wev_cb = "writecb"
  /\ \E ws \in SeqsUpTo(WriteAnswers, MaxWritesPerEvent), ub \in UbChoices :
       /\ UbRelevant(ub, ws)
       /\ writecb(Cur, ws, ub).pw <= MaxPartialWrites
       /\ Commit(writecb(Cur, ws, ub))
       /\ ev' = IF on_write(Cur, ws, ub).rv # 0 THEN "disc" ELSE "run"
  /\ UNCHANGED <<reqs, ndebug>>

\* The socket is readable: readcb.
Readable ==
  /\ Running
  /\ fd /\ rev
  /\ \E reads \in SeqsUpTo(ChunkLens, MaxReadsPerEvent), last \in {0, -1} :
       /\ \A i \in 1..Len(reads) : reads[i] = MaxNet + 1 \/ reads[i] < Len(net)
       /\ Commit(readcb(Cur, reads, last))
       /\ ev' = IF on_read(Cur, reads, last).rv # 0 THEN "disc" ELSE "run"
  /\ UNCHANGED <<reqs, ndebug>>

\* MemcachedConnection::~MemcachedConnection
Destroy ==
  /\ Running
  /\ Commit(disconnect(Cur))
  /\ ev' = IF ev = "disc" THEN "destroy_again" ELSE "destroy"
  /\ UNCHANGED <<reqs, ndebug>>

\* ------------------------------------------------------------------ server
\* A response frame: 24-byte header, extra bytes, value bytes.
Frame(magic, op, keylen, extralen, status, totalbody, cas, value) ==
  <<magic, op>> \o put_uint16be(keylen) \o <<extralen, 0>>
  \o put_uint16be(status) \o put_uint32be(totalbody) \o Zeros(4)
  \o Zeros(4) \o put_uint32be(cas) \o Zeros(extralen) \o value

\* The well-formed response of the server to the request of index r: a GET
\* hit carries 4 bytes of flags as extra and a value, a GET miss carries a
\* message and no extra, a finished ADD carries nothing, a refused ADD a
\* message.  The value names the request it answers.
ResponseOf(r) ==
  IF reqs[r].op = MEMCACHED_OP_GET
  THEN IF r % 2 = 1
       THEN [status |-> 0, extralen |-> 4, value |-> <<r, 7>>, cas |-> 5]
       ELSE [status |-> 1, extralen |-> 0, value |-> <<r>>, cas |-> 0]
  ELSE IF r % 2 = 1
       THEN [status |-> 2, extralen |-> 0, value |-> <<r>>, cas |-> 0]
       ELSE [status |-> 0, extralen |-> 0, value |-> <<>>, cas |-> 3]

ResponseFrame(r) ==
  Frame(MEMCACHED_RES_MAGIC, reqs[r].op, 0, ResponseOf(r).extralen,
        ResponseOf(r).status,
        ResponseOf(r).extralen + Len(ResponseOf(r).value),
        ResponseOf(r).cas, ResponseOf(r).value)

\* The server answers the oldest request it has received in full.
ServerRespond ==
  /\ Running
  /\ connected
  /\ srvq # <<>>
  /\ Len(net) + Len(ResponseFrame(Head(srvq))) <= MaxNet
  /\ net' = net \o ResponseFrame(Head(srvq))
  /\ marks' = Append(marks, [end |-> Len(net'), kind |-> "ok",
                             hdr |-> SubSeq(ResponseFrame(Head(srvq)), 1, HeaderLen)])
  /\ srvq' = Tail(srvq)
  /\ ev' = "run"
  /\ UNCHANGED <<reqs, sendq, recvq, sendbufv, sendsum, parse_state, recvbuf,
                 connected, fd, wev, wev_cb, rev, wt, rt, calls, fault,
                 ndebug, leaked, pw>>

\* Headers a faulty or hostile server may send in answer to a request of
\* opcode op; each is complete (24 bytes) and wrong in one respect.  The
\* header of the other opcode announces no body, so it is a whole frame for
\* a request of that opcode.
BadHeader(kind, op) ==
  CASE kind = "magic"      -> Frame(MEMCACHED_REQ_MAGIC, op, 0, 4, 0, 4, 0, <<>>)
    [] kind = "opcode"     -> Frame(MEMCACHED_RES_MAGIC, 2 - op, 0, 0, 1, 0, 0, <<>>)
    [] kind = "keylen"     -> Frame(MEMCACHED_RES_MAGIC, op, 1, 4, 0, 5, 0, <<>>)
    [] kind = "toolarge"   -> Frame(MEMCACHED_RES_MAGIC, op, 0, 4, 0, MaxTotalBody + 1, 0, <<>>)
    [] kind = "getnoextra" -> Frame(MEMCACHED_RES_MAGIC, op, 0, 0, 0, 0, 0, <<>>)
    [] OTHER               -> Frame(MEMCACHED_RES_MAGIC, op, 0, 4, 0, 3, 0, <<>>)

BadKinds == {"magic", "opcode", "keylen", "toolarge", "getnoextra", "tooshort"}

NoBadMark == \A i \in 1..Len(marks) : marks[i].kind = "ok"

\* A faulty server answers the oldest request it has received with a
\* malformed header.
ServerBad ==
  /\ Running
  /\ connected
  /\ NoBadMark
  /\ srvq # <<>>
  /\ Len(net) + HeaderLen <= MaxNet
  /\ \E kind \in BadKinds :
       /\ (kind = "getnoextra") => (reqs[Head(srvq)].op = MEMCACHED_OP_GET)
       /\ net' = net \o SubSeq(BadHeader(kind, reqs[Head(srvq)].op), 1, HeaderLen)
       /\ marks' = Append(marks,
                     [end |-> Len(net'), kind |-> "bad",
                      hdr |-> SubSeq(BadHeader(kind, reqs[Head(srvq)].op), 1, HeaderLen)])
  /\ srvq' = Tail(srvq)
  /\ ev' = "run"
  /\ UNCHANGED <<reqs, sendq, recvq, sendbufv, sendsum, parse_state, recvbuf,
                 connected, fd, wev, wev_cb, rev, wt, rt, calls, fault,
                 ndebug, leaked, pw>>

\* A server sends a well-formed response header although it has no request
\* to answer.
ServerUnsolicited ==
  /\ Running
  /\ connected
  /\ NoBadMark
  /\ srvq = <<>>
  /\ Len(net) + HeaderLen <= MaxNet
  /\ \E op \in {MEMCACHED_OP_GET, MEMCACHED_OP_ADD} :
       /\ net' = net \o Frame(MEMCACHED_RES_MAGIC, op, 0, 0, 1, 0, 0, <<>>)
       /\ marks' = Append(marks,
                     [end |-> Len(net'), kind |-> "unsolicited",
                      hdr |-> Frame(MEMCACHED_RES_MAGIC, op, 0, 0, 1, 0, 0, <<>>)])
  /\ ev' = "run"
  /\ UNCHANGED <<reqs, sendq, recvq, sendbufv, sendsum, parse_state, recvbuf,
                 connected, fd, wev, wev_cb, rev, wt, rt, calls, fault,
                 ndebug, srvq, leaked, pw>>

Next ==
  \/ AddRequest
  \/ Cancel
  \/ ConnectReady
  \/ Writable
  \/ Readable
  \/ Timeout
  \/ Destroy
  \/ ServerRespond
  \/ ServerBad
  \/ ServerUnsolicited

Spec == Init /\ [][Next]_vars

\* The sending side of the connection alone (no response is read), with the
\* event loop delivering the connect-ready and writable events of a socket
\* that does not stay blocked for ever.
NextSend ==
  \/ AddRequest
  \/ Cancel
  \/ ConnectReady
  \/ Writable
  \/ Timeout

\* ENABLED <<Writable>>_vars as a state predicate: a writable event can be
\* delivered and changes something (bytes are accepted, or the write fails).
WritableEnabled ==
  /\ Running
  /\ fd /\ wev /\ wev_cb = "writecb"
  /\ \E ws \in SeqsUpTo(WriteAnswers, MaxWritesPerEvent), ub \in UbChoices :
       /\ UbRelevant(ub, ws)
       /\ writecb(Cur, ws, ub).pw <= MaxPartialWrites
       /\ \/ writecb(Cur, ws, ub) # Cur
          \/ ev # (IF on_write(Cur, ws, ub).rv # 0 THEN "disc" ELSE "run")

\* A timer of the connection is running: wt since initiate_connection, rt
\* since on_connect, both with the fixed period of ten seconds.
TimerArmed == Running /\ (wt \/ rt)

\* Weak fairness of the connect-ready event and of the writable event, the
\* latter with its enabling condition written out; and a timer left running
\* fires unless handlers keep running (every on_write restarts rt).
SpecLive ==
  /\ Init /\ [][NextSend]_vars
  /\ WF_vars(ConnectReady)
  /\ ([]<>(~WritableEnabled) \/ []<><<Writable>>_vars)
  /\ ([]<>(~TimerArmed) \/ []<><<NextSend>>_vars)

\* The connection with no request ever canceled and a server that answers
\* every request it receives, in order, with a well-formed response.
NextFifo ==
  \/ AddRequest
  \/ ConnectReady
  \/ Writable
  \/ Readable
  \/ Timeout
  \/ Destroy
  \/ ServerRespond

SpecFifo == Init /\ [][NextFifo]_vars

\* ------------------------------------------------- response stream alone
\* The responses to the requests 1..n, one frame after the other.
RECURSIVE Stream(_)
Stream(n) == IF n = 0 THEN <<>> ELSE Stream(n - 1) \o ResponseFrame(n)

StreamMarks(n) ==
  [i \in 1..n |-> [end |-> Len(Stream(i)), kind |-> "ok",
                   hdr |-> SubSeq(ResponseFrame(i), 1, HeaderLen)]]

\* A connected connection whose n requests have all been written and
\* answered: they wait in recvq_ (some of them canceled meanwhile) and the
\* whole response stream is on the wire.
InitParse ==
  /\ \E n \in 1..MaxReqs :
       /\ reqs \in [1..n -> {[NewRequest(in) EXCEPT !.canceled = c] :
                               in \in {i \in ReqInputs : i.vallen <= 1264},
                               c \in BOOLEAN}]
       /\ recvq = [i \in 1..n |-> i]
       /\ net = Stream(n)
       /\ marks = StreamMarks(n)
  /\ sendq = <<>>
  /\ sendbufv = <<>>
  /\ sendsum = 0
  /\ parse_state = ParseStateInit
  /\ recvbuf = <<>>
  /\ connected = TRUE
  /\ fd = TRUE
  /\ wev = FALSE
  /\ wev_cb = "writecb"
  /\ rev = TRUE
  /\ wt = FALSE
  /\ rt = TRUE
  /\ calls = <<>>
  /\ fault = "none"
  /\ ndebug \in BOOLEAN
  /\ srvq = <<>>
  /\ leaked = {}
  /\ pw = 0
  /\ ev = "run"

\* readcb with a read of any length k, the socket having nothing more after
\* it.
ReadChunk ==
  /\ Running
  /\ fd /\ rev
  /\ \E k \in 1..Len(net) :
       /\ Commit(readcb(Cur, <<k>>, 0))
       /\ ev' = IF on_read(Cur, <<k>>, 0).rv # 0 THEN "disc" ELSE "run"
  /\ UNCHANGED <<reqs, ndebug>>

NextParse == ReadChunk

SpecParse == InitParse /\ [][NextParse]_vars

\* The response stream read in chunks of any length, the read timeout
\* firing at any moment.
NextPhase ==
  \/ ReadChunk
  \/ Timeout

SpecPhase == InitParse /\ [][NextPhase]_vars

\* ------------------------------------------------- one response frame alone
\* The header fields a server may declare for the one frame it sends, up to
\* the 16 KiB limit of the total body and one past it.
BodyLens == {0, 3, 4, 6, MaxTotalBody, MaxTotalBody + 1}

\* The value bytes of that frame: what the declared total body leaves after
\* the extra bytes, numbered so that their order shows.
BodyValue(extralen, totalbody) ==
  IF totalbody < extralen THEN <<>>
  ELSE [i \in 1..(totalbody - extralen) |-> i % 251]

\* A connected connection with one written request in recvq_ and one frame
\* on the wire whose header declares any of the field values above.
InitBody ==
  /\ \E in \in {i \in ReqInputs : i.cb /\ i.vallen <= 1264},
        keylen \in {0, 1}, extralen \in {0, 4}, status \in {0, 1},
        totalbody \in BodyLens :
       /\ reqs = <<NewRequest(in)>>
       /\ net = Frame(MEMCACHED_RES_MAGIC, in.op, keylen, extralen, status,
                      totalbody, 9, BodyValue(extralen, totalbody))
       /\ marks = <<[end |-> Len(net), kind |-> "ok",
                     hdr |-> SubSeq(net, 1, HeaderLen)]>>
  /\ recvq = <<1>>
  /\ sendq = <<>>
  /\ sendbufv = <<>>
  /\ sendsum = 0
  /\ parse_state = ParseStateInit
  /\ recvbuf = <<>>
  /\ connected = TRUE
  /\ fd = TRUE
  /\ wev = FALSE
  /\ wev_cb = "writecb"
  /\ rev = TRUE
  /\ wt = FALSE
  /\ rt = TRUE
  /\ calls = <<>>
  /\ fault = "none"
  /\ ndebug \in BOOLEAN
  /\ srvq = <<>>
  /\ leaked = {}
  /\ pw = 0
  /\ ev = "run"

\* What one read of the frame returns: the header in two pieces or more, the
\* body in large pieces, at most a full receive buffer.
BodyChunks == {10, 14, 5000, RecvBufCap}

\* readcb with one read of the frame.
ReadBody ==
  /\ Running
  /\ fd /\ rev
  /\ net # <<>>
  /\ \E k \in BodyChunks :
       /\ (k < HeaderLen) => (parse_state.state = "HEADER24")
       /\ Commit(readcb(Cur, <<k>>, 0))
       /\ ev' = IF on_read(Cur, <<k>>, 0).rv # 0 THEN "disc" ELSE "run"
  /\ UNCHANGED <<reqs, ndebug>>

NextBody == ReadBody

SpecBody == InitBody /\ [][NextBody]_vars

\* ================================================================== claims
Queued == Range(sendq) \cup Range(recvq)

CallsOf(r) == {i \in 1..Len(calls) : calls[i].req = r}

NumCalls(r) == Cardinality(CallsOf(r))

IsErr(c) == c.status_code = MEMCACHED_ERR_ERROR /\ c.value = <<>>

\* The invocations made by the step under way.
NewCalls == SubSeq(calls', Len(calls) + 1, Len(calls'))

CallsGrow == Len(calls') >= Len(calls) /\ SubSeq(calls', 1, Len(calls)) = calls

\* The requests of q that have a callback and are not canceled.
Live(q) == SelectSeq(q, LAMBDA r : reqs[r].cb /\ ~reqs[r].canceled)

\* C1: every request that is never canceled has its callback invoked exactly
\* once: none while it is queued, and exactly one as soon as it has left the
\* queues (so exactly one after any disconnect); no such request leaves the
\* send or the receive queue without its callback having been invoked.
C1_ExactlyOneCallback ==
  \A r \in 1..Len(reqs) :
     (reqs[r].cb /\ ~reqs[r].canceled) =>
        (IF r \in Queued THEN NumCalls(r) = 0 ELSE NumCalls(r) = 1)

\* C2: a request marked canceled (which can only be done before its callback
\* fired) never has its callback invoked, by the parser, the scheduler or
\* disconnect.
C2_CanceledNeverCalled ==
  \A r \in 1..Len(reqs) : reqs[r].canceled => NumCalls(r) = 0

\* C3: disconnect() from a timeout invokes the callback of every queued
\* request that is not canceled exactly once with MEMCACHED_ERR_ERROR, those
\* of the receive queue first and each queue in FIFO order, and leaves both
\* queues and the staged batch empty, sendsum_ 0, the parse state reset and
\* connected_ false; every timeout does so.
C3_DisconnectCompletes ==
  [][Timeout =>
       /\ CallsGrow
       /\ SelectSeq(NewCalls, LAMBDA c : ~reqs[c.req].canceled)
            = [i \in 1..Len(Live(recvq \o sendq)) |->
                 Result(Live(recvq \o sendq)[i], MEMCACHED_ERR_ERROR, <<>>,
                        Len(calls), TRUE)]
       /\ sendq' = <<>> /\ recvq' = <<>> /\ sendbufv' = <<>>
       /\ sendsum' = 0
       /\ parse_state' = ParseStateInit
       /\ ~connected']_vars

\* A disconnect has just failed a request of the receive queue and then one
\* of the send queue in the same run.
C3_Witness ==
  /\ ev = "disc"
  /\ Len(calls) = 2
  /\ calls[1].run = calls[2].run
  /\ IsErr(calls[1]) /\ IsErr(calls[2])
  /\ calls[1].req = 1 /\ calls[2].req = 2
  /\ ~reqs[1].canceled /\ ~reqs[2].canceled
  /\ reqs[1].vallen = 1264
  /\ sendq = <<>> /\ recvq = <<>>

\* C4: the assertion of disconnect() that the receive buffer holds no unread
\* bytes holds whenever disconnect() runs.
C4_AssertHolds == fault # "assert_recvbuf"

\* C5: disconnect() invoked right after a disconnect() changes nothing and
\* invokes no callback.
C5_Idempotent == [][(ev' = "destroy_again") => (Cur' = Cur)]_vars

\* The destructor has run disconnect() right after a disconnect that failed
\* a request.
C5_Witness ==
  /\ ev = "destroy_again"
  /\ calls # <<>>
  /\ IsErr(calls[Len(calls)])

\* C6: with no request canceled and the responses arriving in request
\* order, every parsed result goes to the request it answers, carrying the
\* status and value of that response, results are dispatched in enqueue
\* order, the queues hold the requests in enqueue order, and every
\* completed frame has been matched at once: each request of the receive
\* queue is either unanswered or its response is still on the wire.
C6_Fifo ==
  /\ \A i \in 1..Len(calls) :
       ~IsErr(calls[i]) =>
          /\ calls[i].status_code = ResponseOf(calls[i].req).status
          /\ calls[i].value = ResponseOf(calls[i].req).value
  /\ \A i, j \in 1..Len(calls) :
       (i < j /\ ~IsErr(calls[i]) /\ ~IsErr(calls[j]))
          => calls[i].req < calls[j].req
  /\ \A i, j \in 1..Len(recvq \o sendq) :
       i < j => (recvq \o sendq)[i] < (recvq \o sendq)[j]
  /\ Len(recvq) = Len(srvq) + Len(marks)

\* Two requests have been answered, each with its own response, the second
\* in a later read than the first.
C6_Witness ==
  /\ Len(calls) = 2
  /\ calls[1].req = 1 /\ calls[1].value = <<1, 7>> /\ calls[1].status_code = 0
  /\ calls[2].req = 2 /\ calls[2].value = <<2>> /\ calls[2].status_code = 1
  /\ calls[1].run # calls[2].run

\* The invocations without the handler run that made them.
Plain(cs) ==
  [i \in 1..Len(cs) |->
     [req |-> cs[i].req, status_code |-> cs[i].status_code,
      value |-> cs[i].value]]

\* The connection of SpecParse after one read event that delivers, in one
\* chunk, all the bytes delivered so far.
OneChunk ==
  LET stream == Stream(Len(reqs))
      n == Len(stream) - Len(net)
      s0 == [Cur EXCEPT !.recvq = [i \in 1..Len(reqs) |-> i],
                        !.calls = <<>>, !.run = 0,
                        !.parse_state = ParseStateInit, !.recvbuf = <<>>,
                        !.net = stream, !.marks = StreamMarks(Len(reqs)),
                        !.connected = TRUE, !.fd = TRUE, !.rev = TRUE,
                        !.rt = TRUE, !.fault = "none"]
  IN IF n = 0 THEN s0 ELSE readcb(s0, <<n>>, 0)

\* C7: however the bytes of a valid response stream delivered so far were
\* split into chunks over read events, the results dispatched, the parse
\* state, the receive buffer and the receive queue are those of delivering
\* the same bytes in one chunk.
C7_ChunkInvariance ==
  /\ Plain(calls) = Plain(OneChunk.calls)
  /\ parse_state = OneChunk.parse_state
  /\ recvbuf = OneChunk.recvbuf
  /\ recvq = OneChunk.recvq
  /\ connected = OneChunk.connected

\* A stream of two frames has been delivered whole, its second frame
\* completed by a later read than its first.
C7_Witness ==
  /\ net = <<>>
  /\ Len(calls) = 2
  /\ calls[1].value = <<1, 7>>
  /\ calls[1].run # calls[2].run
  /\ recvq = <<>>

\* The staged requests are the longest prefix of the non-canceled requests q
\* whose serialized sizes sum to at most the cap.
RECURSIVE LongestPrefix(_, _)
LongestPrefix(q, room) ==
  IF q = <<>> \/ serialized_size(Head(q)) > room THEN <<>>
  ELSE <<Head(q)>> \o LongestPrefix(Tail(q), room - serialized_size(Head(q)))

NotCanceled(q) == SelectSeq(q, LAMBDA r : ~reqs[r].canceled)

\* C8: a batch staged from the send queue is the longest prefix of its
\* non-canceled requests that fits the 1300-byte cap, the staged total never
\* exceeds 1300, and a non-canceled request that is not staged (or not yet
\* written) stays in the send queue, in order, until it is written: it is
\* never dropped.
C8_Batching ==
  /\ [](/\ sendsum <= SendCap
        /\ LET b == stage(sendq, <<>>, 0).sendbufv
           IN [i \in 1..Len(b) |-> b[i].req]
                = LongestPrefix(NotCanceled(sendq), SendCap))
  /\ [][\A r \in Range(sendq) :
          (~reqs[r].canceled /\ reqs[r].cb) =>
             \/ r \in Range(sendq')
             \/ r \in Range(recvq')
             \/ \E i \in 1..Len(calls') : calls'[i].req = r]_vars

\* C9: a request canceled before all its bytes were written contributes no
\* byte to any later write and never enters the receive queue.
C9_CanceledNoBytes ==
  /\ [](leaked = {})
  /\ [][\A r \in Range(sendq) :
          reqs[r].canceled => r \notin Range(recvq')]_vars

\* The frames on the wire whose header the server sent malformed.
BadMarks == {i \in 1..Len(marks) : marks[i].kind = "bad"}

\* A complete header hdr is malformed for a request of opcode reqop: wrong
\* magic byte, other opcode than the request, key length not zero, total
\* body above 16 KiB, or a GET with status 0 and no extra.
Malformed(hdr, reqop) ==
  \/ hdr[1] # MEMCACHED_RES_MAGIC
  \/ hdr[2] # reqop
  \/ get_uint16(SubSeq(hdr, 3, 4)) # 0
  \/ get_uint32(SubSeq(hdr, 9, 12)) > MaxTotalBody
  \/ (hdr[2] = MEMCACHED_OP_GET /\ get_uint16(SubSeq(hdr, 7, 8)) = 0 /\ hdr[5] = 0)

\* C10: a read event that completes a response header which is malformed
\* for the request then at the head of the receive queue (bad magic, other
\* opcode, key length, body above 16 KiB, GET hit without extra) makes
\* on_read report an error and ends with the connection disconnected; only
\* frames ahead of the malformed one yield parsed results, and every request
\* outstanding at the error is failed with MEMCACHED_ERR_ERROR.  The frame b
\* on the wire meets the request recvq[b], one request being taken off the
\* receive queue per frame.
C10_ProtocolError ==
  [][\A reads \in SeqsUpTo(ChunkLens, MaxReadsPerEvent), last \in {0, -1},
        b \in BadMarks :
       ( /\ Running /\ fd /\ rev
         /\ b <= Len(recvq)
         /\ Malformed(marks[b].hdr, reqs[recvq[b]].op)
         /\ Min(SumSeq(reads), Len(net)) >= marks[b].end
         /\ Commit(readcb(Cur, reads, last)) )
       =>
       ( /\ on_read(Cur, reads, last).rv = -1
         /\ ~connected' /\ ~fd'
         /\ sendq' = <<>> /\ recvq' = <<>>
         /\ CallsGrow
         /\ \A j \in 1..Len(NewCalls) :
              ~IsErr(NewCalls[j]) =>
                 \E k \in 1..(b - 1) : recvq[k] = NewCalls[j].req
         /\ \A r \in Queued :
              (reqs[r].cb /\ ~reqs[r].canceled) =>
                 Cardinality({j \in 1..Len(NewCalls) : NewCalls[j].req = r}) = 1
         /\ \A k \in 1..Len(recvq \o sendq) :
              (k >= b /\ reqs[(recvq \o sendq)[k]].cb) =>
                 \E j \in 1..Len(NewCalls) :
                    /\ NewCalls[j].req = (recvq \o sendq)[k]
                    /\ IsErr(NewCalls[j]) )]_vars

\* A header declaring a body above 16 KiB was buffered whole and rejected:
\* the connection is down and the last invocation was a connection error.
C10_Witness ==
  /\ fault = "assert_recvbuf"
  /\ Len(recvbuf) >= HeaderLen
  /\ get_uint32(SubSeq(recvbuf, 9, 12)) > MaxTotalBody
  /\ ~connected
  /\ calls # <<>>
  /\ IsErr(calls[Len(calls)])

\* Every request of the queue q that has a callback and is not canceled
\* gets exactly one new invocation, a connection error, and the send queue
\* ends empty.
FailedAll(q) ==
  /\ sendq' = <<>>
  /\ CallsGrow
  /\ \A k \in 1..Len(q) :
       (reqs'[q[k]].cb /\ ~reqs'[q[k]].canceled) =>
          /\ Cardinality({j \in 1..Len(NewCalls) : NewCalls[j].req = q[k]}) = 1
          /\ \E j \in 1..Len(NewCalls) :
               NewCalls[j].req = q[k] /\ IsErr(NewCalls[j])

\* C11: when a connection attempt fails, inside add_request (socket() or
\* connect() fails) or at the connect-ready check of on_connect, every
\* request queued at that moment gets the connection-error result and
\* leaves the send queue.
C11_ConnectFailure ==
  [][ /\ ( /\ Running /\ ~connected /\ ~fd
           /\ \E in \in ReqInputs : reqs' = Append(reqs, NewRequest(in))
           /\ Commit(add_request(Cur, Len(reqs) + 1, FALSE).st) )
         => FailedAll(Append(sendq, Len(reqs) + 1))
      /\ ( /\ Running /\ fd /\ wev /\ wev_cb = "connectcb"
           /\ reqs' = reqs
           /\ Commit(connectcb(Cur, FALSE, <<>>, FALSE)) )
         => FailedAll(sendq) ]_vars

\* The header at the front of the unparsed stream, when the parser is at a
\* frame boundary.
NextHeader == SubSeq(recvbuf \o net, 1, HeaderLen)

\* The value length a header declares: total body - key length - extra
\* length.
DeclaredValueLen(ps) == ps.totalbody - ps.keylen - ps.extralen

\* C12: the value accumulated for one frame never exceeds 16 KiB and, in the
\* value phase, read_left plus the accumulated length is the declared value
\* length, which is never negative; a read that completes a header declaring
\* a total body above 16 KiB, or one smaller than key length plus extra
\* length, is rejected with no value byte accumulated and no result parsed.
C12_ValueBounded ==
  /\ [](/\ Len(parse_state.value) <= MaxTotalBody
        /\ parse_state.read_left >= 0
        /\ \A i \in 1..Len(calls) : Len(calls[i].value) <= MaxTotalBody
        /\ (parse_state.state = "VALUE") =>
              /\ DeclaredValueLen(parse_state) >= 0
              /\ parse_state.read_left + Len(parse_state.value)
                   = DeclaredValueLen(parse_state))
  /\ [][\A k \in BodyChunks :
          ( /\ Running /\ fd /\ rev
            /\ parse_state.state = "HEADER24"
            /\ Len(recvbuf) < HeaderLen
            /\ Len(recvbuf) + Min(k, Len(net)) >= HeaderLen
            /\ \/ get_uint32(SubSeq(NextHeader, 9, 12)) > MaxTotalBody
               \/ get_uint32(SubSeq(NextHeader, 9, 12))
                    < get_uint16(SubSeq(NextHeader, 3, 4)) + NextHeader[5]
            /\ Commit(readcb(Cur, <<k>>, 0)) )
          =>
          ( /\ on_read(Cur, <<k>>, 0).rv = -1
            /\ on_read(Cur, <<k>>, 0).st.parse_state.value = <<>>
            /\ parse_state'.value = <<>>
            /\ CallsGrow
            /\ \A j \in 1..Len(NewCalls) : IsErr(NewCalls[j]) )]_vars

\* A frame whose value fills the 16 KiB exactly was accumulated over several
\* reads and delivered whole.
C12_Witness ==
  /\ Len(calls) = 1
  /\ Len(calls[1].value) = MaxTotalBody
  /\ calls[1].value[MaxTotalBody] = MaxTotalBody % 251
  /\ parse_state = ParseStateInit
  /\ recvq = <<>>

\* The result c delivered for the request recvq[i] carries the status code
\* of the header of frame i and the value bytes of that frame.
CarriesStatusValue(c, i) ==
  /\ c.status_code = get_uint16(SubSeq(marks[i].hdr, 7, 8))
  /\ c.value = ResponseOf(recvq[i]).value
  /\ Len(c.value) = get_uint32(SubSeq(marks[i].hdr, 9, 12)) - marks[i].hdr[5]

\* The result c carries the CAS token of the header of frame i.
CarriesCas(c, i) ==
  /\ "cas" \in DOMAIN c
  /\ c.cas = get_uint64(SubSeq(marks[i].hdr, 17, 24))

\* C13: the result dispatched when a frame completes goes to the request
\* the frame answers and carries the status code of the frame's header, the
\* value bytes of the frame and the CAS token of the frame's header.
C13_ResultFields ==
  [][\A j \in 1..Len(NewCalls) :
        ~IsErr(NewCalls[j]) =>
           \E i \in 1..Min(Len(marks), Len(recvq)) :
              /\ recvq[i] = NewCalls[j].req
              /\ CarriesStatusValue(NewCalls[j], i)
              /\ CarriesCas(NewCalls[j], i)]_vars

\* C14: no request is in the send queue and the receive queue at once, and
\* every callback invoked so far, by the parser or by disconnect, was invoked
\* after its request had been taken out of its queue.
C14_RemovedBeforeCallback ==
  /\ Range(sendq) \cap Range(recvq) = {}
  /\ \A i \in 1..Len(calls) : ~calls[i].queued

\* What a write event that finds the socket blocked leaves behind: no
\* disconnect, no callback, both queues as they were, the batch staged (the
\* one under way, or the one staged from the send queue when none was) with
\* sendsum_ its byte count, and the write watcher armed on writecb.
BlockedLeaves ==
  /\ connected' /\ fd'
  /\ calls' = calls
  /\ sendq' = sendq /\ recvq' = recvq
  /\ sendbufv' = IF sendsum = 0 THEN stage(sendq, <<>>, 0).sendbufv
                 ELSE sendbufv
  /\ sendsum' = PendingBytes
  /\ sendsum' > 0
  /\ sendsum' = iov_bytes(sendbufv')
  /\ wev' /\ wev_cb' = "writecb"

\* C15: when the socket accepts zero bytes of the staged batch, on_write
\* returns 0, the connection stays up, the queues, the staged batch and
\* sendsum_ are left as staged and the write watcher stays armed: the next
\* writable event writes the same batch, sendsum_ being non-zero, without
\* staging again.  Such an event hands over no request, reads nothing and
\* invokes no callback.
C15_BlockedWrite ==
  [][( /\ Running /\ fd /\ wev
       /\ PendingBytes > 0
       /\ UNCHANGED <<reqs, net, recvq, calls>> )
     =>
     \A ub \in UbChoices :
       /\ ( /\ wev_cb = "writecb" /\ connected
            /\ UbRelevant(ub, <<>>)
            /\ send_request(Cur, 0, ub).used
            /\ Commit(writecb(Cur, <<>>, ub)) )
          => (on_write(Cur, <<>>, ub).rv = 0 /\ BlockedLeaves)
       /\ ( /\ wev_cb = "connectcb"
            /\ UbRelevant(ub, <<>>)
            /\ send_request(on_connect(Cur, TRUE).st, 0, ub).used
            /\ Commit(connectcb(Cur, TRUE, <<>>, ub)) )
          => (on_write(on_connect(Cur, TRUE).st, <<>>, ub).rv = 0
              /\ BlockedLeaves) ]_vars

\* A batch of two requests was staged and the socket took none of it: both
\* wait in the send queue, the batch is whole and the watcher is armed.
C15_Witness ==
  /\ connected /\ wev /\ wev_cb = "writecb"
  /\ Len(sendq) = 2 /\ recvq = <<>>
  /\ Len(sendbufv) = 2
  /\ sendbufv = stage(sendq, <<>>, 0).sendbufv
  /\ sendsum = iov_bytes(sendbufv)
  /\ calls = <<>>

\* All bytes of the request r were written and r waits in the receive
\* queue.
Flushed(r) ==
  /\ r \in Range(recvq)
  /\ \A i \in 1..Len(sendbufv) : sendbufv[i].req # r

\* C16: while the connection is established and the send queue is not
\* empty, the write watcher is armed between handlers; and, the writable
\* events being delivered fairly, every request in the send queue of an
\* established connection is eventually flushed and in the receive queue,
\* unless it is canceled or the connection is disconnected first.
C16_EventuallyFlushed ==
  /\ []((connected /\ sendq # <<>>) => (wev /\ wev_cb = "writecb"))
  /\ \A r \in 1..MaxReqs :
       []((connected /\ r \in Range(sendq) /\ ~reqs[r].canceled)
            => <>(\/ ~connected
                  \/ Flushed(r)
                  \/ (r <= Len(reqs) /\ reqs[r].canceled)))

\* A read event took exactly one byte off the wire and the connection
\* stayed up.
OneByteRead == connected /\ connected' /\ Len(net') = Len(net) - 1

\* The phase changes one byte can make, and no other: header to extra with
\* extra length > 0, header to value with extra length 0, extra to value
\* once all extra bytes are consumed, value to header once all value bytes
\* are accumulated (through the value phase when the value is empty).
PhaseStep(ps, pt) ==
  /\ (ps.state = "HEADER24" /\ pt.state = "EXTRA") =>
        (pt.extralen > 0 /\ pt.read_left = pt.extralen)
  /\ (ps.state = "HEADER24" /\ pt.state = "VALUE") =>
        (pt.extralen = 0 /\ pt.read_left = pt.totalbody /\ pt.value = <<>>)
  /\ (ps.state = "HEADER24" /\ pt.state = "HEADER24") =>
        \/ recvq' = recvq /\ Len(recvbuf') = Len(recvbuf) + 1
        \/ recvq' = Tail(recvq) /\ recvbuf' = <<>>
  /\ (ps.state = "EXTRA" /\ pt.state = "EXTRA") =>
        (pt.read_left = ps.read_left - 1 /\ pt.read_left > 0)
  /\ (ps.state = "EXTRA" /\ pt.state = "VALUE") =>
        (ps.read_left = 1 /\ pt.read_left = ps.totalbody - ps.extralen
         /\ pt.value = <<>>)
  /\ (ps.state = "EXTRA" /\ pt.state = "HEADER24") =>
        (ps.read_left = 1 /\ ps.totalbody = ps.extralen
         /\ recvq' = Tail(recvq))
  /\ (ps.state = "VALUE" /\ pt.state = "VALUE") =>
        (pt.read_left = ps.read_left - 1 /\ Len(pt.value) = Len(ps.value) + 1)
  /\ (ps.state = "VALUE" /\ pt.state = "HEADER24") =>
        (ps.read_left = 1 /\ recvq' = Tail(recvq))
  /\ ~(ps.state = "VALUE" /\ pt.state = "EXTRA")

\* C17: between handlers the parse state differs from its initial value
\* only inside a partially received frame (extra or value phase with bytes
\* still to come, on an established connection, for the request at the head
\* of the receive queue); it is the initial value right after a frame is
\* dispatched and after every disconnect; and its phase changes only header
\* to extra, header to value, extra to value and value to header.
C17_ParseStateLifetime ==
  /\ []((parse_state # ParseStateInit) =>
          /\ connected
          /\ recvq # <<>>
          /\ parse_state.state \in {"EXTRA", "VALUE"}
          /\ parse_state.read_left > 0)
  /\ [][(~connected') => (parse_state' = ParseStateInit)]_vars
  /\ [][(OneByteRead /\ Len(recvq') < Len(recvq))
           => (parse_state' = ParseStateInit)]_vars
  /\ [][OneByteRead => PhaseStep(parse_state, parse_state')]_vars

\* The extra bytes of a frame are consumed and its value is half
\* accumulated.
C17_Witness ==
  /\ parse_state.state = "VALUE"
  /\ parse_state.extralen = 4
  /\ Len(parse_state.value) = 1
  /\ parse_state.read_left = 1
  /\ connected

\* C18: the accounting loop of send_request never finds the front staged
\* entry belonging to another request than the first non-canceled one of
\* the send queue (assert(buf.req == req.get())), and never takes the front
\* of an empty staged batch or of an empty send queue, nor pops the latter.
C18_AccountingSafe ==
  fault \notin {"assert_bufreq", "ub_sendq_front", "ub_sendbufv_front",
                "ub_sendq_pop_front"}

\* The staged batch new continues the batch old: it is what is left of old
\* after some of its bytes were written, nothing staged in addition.
Continues(old, new) ==
  /\ Len(new) <= Len(old)
  /\ \A i \in 1..Len(new) :
       LET o == old[i + Len(old) - Len(new)]
       IN /\ new[i].req = o.req
          /\ new[i].head <= o.head
          /\ new[i].send_value_left <= o.send_value_left

\* C19: between handlers of a running process sendsum_ is the number of
\* unsent header and value bytes of the staged batch, and it is 0 exactly
\* when the batch is empty; a handler either continues the batch under way
\* or, that batch gone entirely, leaves one staged anew.
C19_SendsumExact ==
  /\ []((fault = "none") =>
          /\ sendsum = iov_bytes(sendbufv)
          /\ (sendsum = 0) <=> (sendbufv = <<>>)
          /\ \A i \in 1..Len(sendbufv) : left(sendbufv[i]) > 0)
  /\ [][(fault' = "none") =>
          \/ Continues(sendbufv, sendbufv')
          \/ \A i \in 1..Len(sendbufv'), j \in 1..Len(sendbufv) :
                sendbufv'[i].req # sendbufv[j].req]_vars

\* A batch of two requests is partly written: ten bytes of the first header
\* are gone, the rest is staged and counted.
C19_Witness ==
  /\ fault = "none"
  /\ Len(sendbufv) = 2
  /\ sendbufv[1].head = HeaderLen + 4 - 10
  /\ sendsum = iov_bytes(sendbufv)
  /\ sendsum > 0
  /\ Len(sendq) = 2

\* The bytes one read event with the read lengths reads takes off the wire
\* unless a parse error cuts it short.
Taken(reads) == Min(SumSeq(reads), Min(Len(net), wleft(recvbuf)))

\* C20: a read event that completes a 24-byte header while the receive
\* queue is empty makes on_read report an error and disconnects, and no
\* callback is invoked but the connection errors of the requests waiting in
\* the send queue; a read event (the socket reporting no error) after which
\* fewer than 24 bytes of a header are buffered reports no error, invokes no
\* callback and keeps all those bytes buffered.  Either read event takes
\* bytes off the wire.
C20_NoRequestInFlight ==
  [][( /\ Running /\ fd /\ rev /\ connected
       /\ Len(recvbuf) < HeaderLen
       /\ Len(net') < Len(net) )
     =>
     \A reads \in SeqsUpTo(ChunkLens, MaxReadsPerEvent), last \in {0, -1} :
       /\ ( /\ recvq = <<>>
            /\ Len(recvbuf) + Taken(reads) >= HeaderLen
            /\ Commit(readcb(Cur, reads, last)) )
          =>
          ( /\ on_read(Cur, reads, last).rv = -1
            /\ ~connected' /\ ~fd'
            /\ CallsGrow
            /\ \A j \in 1..Len(NewCalls) :
                 IsErr(NewCalls[j]) /\ NewCalls[j].req \in Range(sendq) )
       /\ ( /\ parse_state.state = "HEADER24"
            /\ last = 0
            /\ Taken(reads) > 0
            /\ Len(recvbuf) + Taken(reads) < HeaderLen
            /\ Commit(readcb(Cur, reads, last)) )
          =>
          ( /\ on_read(Cur, reads, last).rv = 0
            /\ connected' /\ fd'
            /\ calls' = calls
            /\ recvq' = recvq
            /\ recvbuf' = recvbuf \o SubSeq(net, 1, Taken(reads)) ) ]_vars

\* The only request was still unsent when a whole header, one that would
\* answer it, arrived: the header was refused and the connection torn down.
C20_Witness ==
  /\ fault = "assert_recvbuf"
  /\ ~connected
  /\ Len(reqs) = 1
  /\ recvbuf = Frame(MEMCACHED_RES_MAGIC, reqs[1].op, 0, 0, 1, 0, 0, <<>>)
  /\ \A i \in 1..Len(calls) : IsErr(calls[i])

====
